---- MODULE Spec2Model ----
(***************************************************************************)
(* Model of the access-rules Cloudflare Worker (src/workers.js): a reverse *)
(* proxy that rewrites the inbound request for one upstream host, fetches  *)
(* it, and turns the upstream response into a pass-through response with   *)
(* charset / Content-Disposition edits, a bodiless response, or a rendered *)
(* error page.                                                             *)
(*                                                                         *)
(* JavaScript strings are sequences of one-character strings, so that      *)
(* split, trim, toLowerCase, includes, startsWith, parseInt and template   *)
(* concatenation are computed character by character.                      *)
(***************************************************************************)
EXTENDS Integers, Sequences, FiniteSets, TLC

VARIABLES
    pc,                 \* position of the handler: idle, entered, awaiting, done, or a harness position
    env,                \* the env bindings of the current invocation
    request,            \* the inbound Request
    normalStatusCodes,  \* local of getResponse, workers.js:151
    reqData,            \* local of getResponse, workers.js:152
    fetchCalls,         \* number of calls of the global fetch made by the current invocation
    upstream,           \* the Response the awaited fetch resolved to, workers.js:156
    contentType,        \* local of getResponse, workers.js:170 (argument of getDisposition)
    disposition,        \* local of getResponse, workers.js:176 (result of getDisposition)
    response            \* the Response the handler returned

vars == <<pc, env, request, normalStatusCodes, reqData, fetchCalls, upstream,
          contentType, disposition, response>>

-----------------------------------------------------------------------------
(* JavaScript values *)

\* undefined / null for a string-valued binding or header lookup
Undefined == <<"undefined">>

\* !x for a string-or-undefined x: undefined, null and "" are falsy
Falsy(s) == s = Undefined \/ s = <<>>

WhiteSpace == {" "}

UpperCase == <<"A", "B", "C", "D", "E", "F", "G", "H", "I", "J", "K", "L", "M", "N", "O", "P", "Q", "R", "S", "T", "U", "V", "W", "X", "Y", "Z">>
LowerCase == <<"a", "b", "c", "d", "e", "f", "g", "h", "i", "j", "k", "l", "m", "n", "o", "p", "q", "r", "s", "t", "u", "v", "w", "x", "y", "z">>
DecDigits == <<"0", "1", "2", "3", "4", "5", "6", "7", "8", "9">>

\* String.prototype.toLowerCase
ToLowerChar(c) ==
    IF \E i \in 1..Len(UpperCase) : UpperCase[i] = c
    THEN LowerCase[CHOOSE i \in 1..Len(UpperCase) : UpperCase[i] = c]
    ELSE c

toLowerCase(s) == [i \in 1..Len(s) |-> ToLowerChar(s[i])]

\* String.prototype.trim
RECURSIVE trimStart(_)
trimStart(s) ==
    IF s # <<>> /\ Head(s) \in WhiteSpace THEN trimStart(Tail(s)) ELSE s

RECURSIVE trimEnd(_)
trimEnd(s) ==
    IF s # <<>> /\ s[Len(s)] \in WhiteSpace THEN trimEnd(SubSeq(s, 1, Len(s) - 1)) ELSE s

trim(s) == trimEnd(trimStart(s))

\* String.prototype.startsWith / includes
startsWith(s, t) == Len(t) <= Len(s) /\ SubSeq(s, 1, Len(t)) = t

includes(s, t) ==
    \E i \in 0..(Len(s) - Len(t)) : SubSeq(s, i + 1, i + Len(t)) = t

\* String.prototype.split(',')
RECURSIVE split(_)
split(s) ==
    IF \E i \in 1..Len(s) : s[i] = ","
    THEN LET i == CHOOSE k \in 1..Len(s) :
                    s[k] = "," /\ \A j \in 1..(k - 1) : s[j] # ","
         IN  <<SubSeq(s, 1, i - 1)>> \o split(SubSeq(s, i + 1, Len(s)))
    ELSE <<s>>

\* Array.prototype.includes / some, on sequences
arrayIncludes(arr, x) == \E i \in 1..Len(arr) : arr[i] = x

\* parseInt(string) with no radix: leading white space skipped, an optional
\* sign, then the longest run of decimal digits; NaN when there is none.
\* NaN is <<>> and a number n is <<n>>.  (A "0x" prefix selects base 16 in
\* JavaScript; the modelled inputs carry no such prefix.)
DigitValue(c) == (CHOOSE i \in 1..Len(DecDigits) : DecDigits[i] = c) - 1

IsDigit(c) == \E i \in 1..Len(DecDigits) : DecDigits[i] = c

RECURSIVE ParseDigits(_, _)
ParseDigits(s, acc) ==
    IF s # <<>> /\ IsDigit(Head(s))
    THEN ParseDigits(Tail(s), acc * 10 + DigitValue(Head(s)))
    ELSE acc

parseInt(str) ==
    LET s    == trimStart(str)
        neg  == s # <<>> /\ Head(s) = "-"
        body == IF s # <<>> /\ Head(s) \in {"-", "+"} THEN Tail(s) ELSE s
    IN  IF body # <<>> /\ IsDigit(Head(body))
        THEN <<(IF neg THEN -1 ELSE 1) * ParseDigits(body, 0)>>
        ELSE <<>>

isNaN(v) == v = <<>>

-----------------------------------------------------------------------------
(* Constants of workers.js *)

CHARSET_DEFAULT == <<"u", "t", "f", "-", "8">>

\* variant: 304 left out of the list
NULL_BODY_STATUS_CODES_No304 == <<101, 204, 205>>

NULL_BODY_STATUS_CODES == <<101, 204, 205, 304>>

-----------------------------------------------------------------------------
(* Tool functions *)

RECURSIVE FilterNumbers(_)
FilterNumbers(arr) ==
    IF arr = <<>> THEN <<>>
    ELSE (IF isNaN(Head(arr)) THEN <<>> ELSE Head(arr)) \o FilterNumbers(Tail(arr))

\* workers.js:17-23
parseNormalStatusCodes(statusCodesStr) ==
    IF Falsy(statusCodesStr) THEN <<200>>
    ELSE LET tokens == split(statusCodesStr)
             parsed == [i \in 1..Len(tokens) |-> parseInt(trim(tokens[i]))]
         IN  FilterNumbers(parsed)

\* workers.js:26-32
parseMimeList(mimeStr) ==
    IF Falsy(mimeStr) THEN <<>>
    ELSE LET tokens == split(mimeStr)
             mapped == [i \in 1..Len(tokens) |-> toLowerCase(trim(tokens[i]))]
         IN  SelectSeq(mapped, LAMBDA t : t # <<>>)

-----------------------------------------------------------------------------
(* Headers, bodies, URLs and Responses of the Fetch API, as the handler uses them *)

\* A Headers object: a function from lower-case header names to values.
EmptyHeaders == [h \in {} |-> <<>>]

headersGet(hs, name) == IF name \in DOMAIN hs THEN hs[name] ELSE Undefined

headersSet(hs, name, value) ==
    [h \in DOMAIN hs \cup {name} |-> IF h = name THEN value ELSE hs[h]]

headersDelete(hs, name) == [h \in DOMAIN hs \ {name} |-> hs[h]]

RECURSIVE headersDeleteAll(_, _)
headersDeleteAll(hs, names) ==
    IF names = <<>> THEN hs
    ELSE headersDeleteAll(headersDelete(hs, Head(names)), Tail(names))

\* A body: null, a stream (identified by its content), or a rendered page.
NullBody == [kind |-> "null"]

StreamBody(data) == [kind |-> "stream", data |-> data]

\* new Response(body, init): status and headers are taken from init
newResponse(body, init) ==
    [status |-> init.status, headers |-> init.headers, body |-> body]

\* URL.prototype.toString of a URL with the given components
urlToString(u) ==
    u.protocol \o <<"/", "/">> \o u.hostname
        \o (IF u.port = <<>> THEN <<>> ELSE <<":">> \o u.port)
        \o u.pathname \o u.search

-----------------------------------------------------------------------------
(* Request rewriting, workers.js:35-65 *)

\* variant: cdn-loop left out of the list
removeHeaders_NoCdnLoop ==
    <<"host", "cf-connecting-ip", "cf-ipcountry", "cf-ray", "cf-visitor">>

\* workers.js:56
removeHeaders ==
    <<"host", "cf-connecting-ip", "cf-ipcountry", "cf-ray", "cf-visitor", "cdn-loop">>

\* buildReq returning null
NullReqData == [null |-> TRUE]

\* variant: only GET is checked before the body is attached
buildReq_BodyUnlessGet(req, e) ==
    LET targetHost == e.GET_URL
    IN  IF Falsy(targetHost) THEN NullReqData
        ELSE LET url     == [req.url EXCEPT !.hostname = targetHost,
                                            !.port = <<>>,
                                            !.protocol = <<"h", "t", "t", "p", "s", ":">>]
                 base    == [method   |-> req.method,
                             headers  |-> req.headers,
                             redirect |-> "follow"]
                 withBody == IF req.method # "GET"
                             THEN [method   |-> base.method,
                                   headers  |-> base.headers,
                                   redirect |-> base.redirect,
                                   body     |-> req.body]
                             ELSE base
                 cleaned == headersDeleteAll(withBody.headers, removeHeaders)
                 requestInit == [withBody EXCEPT
                                    !.headers = headersSet(cleaned, "host", targetHost)]
             IN  [url |-> urlToString(url), requestInit |-> requestInit]

buildReq(req, e) ==
    LET targetHost == e.GET_URL
    IN  IF Falsy(targetHost) THEN NullReqData
        ELSE LET url     == [req.url EXCEPT !.hostname = targetHost,
                                            !.port = <<>>,
                                            !.protocol = <<"h", "t", "t", "p", "s", ":">>]
                 base    == [method   |-> req.method,
                             headers  |-> req.headers,
                             redirect |-> "follow"]
                 withBody == IF req.method \notin {"GET", "HEAD"}
                             THEN [method   |-> base.method,
                                   headers  |-> base.headers,
                                   redirect |-> base.redirect,
                                   body     |-> req.body]
                             ELSE base
                 cleaned == headersDeleteAll(withBody.headers, removeHeaders)
                 requestInit == [withBody EXCEPT
                                    !.headers = headersSet(cleaned, "host", targetHost)]
             IN  [url |-> urlToString(url), requestInit |-> requestInit]

-----------------------------------------------------------------------------
(* Error page, workers.js:68-113 *)

\* customMessage = null
NoMessage == "<null>"

\* "抱歉，您请求的资源未找到。"
MSG_NOT_FOUND == "Sorry, the resource you requested was not found."
\* "请求的资源可能需要特殊权限才能访问，或者暂时不可用。"
MSG_UNAVAILABLE == "The requested resource may need special permission, or is temporarily unavailable."
\* "未配置 GET_URL，请先配置环境变量。"
MSG_GET_URL_MISSING == "GET_URL is not configured, configure the environment variable first."
\* "无法构建请求，请检查环境变量配置。"
MSG_BUILD_FAILED == "Cannot build the request, check the environment variables."

Truthy(message) == message \notin {NoMessage, ""}

\* variant: every error page is sent with status 500
generateErrorPage_Always500(statusCode, customMessage) ==
    LET msg == IF Truthy(customMessage) THEN customMessage
               ELSE IF statusCode = 404 THEN MSG_NOT_FOUND ELSE MSG_UNAVAILABLE
    IN  newResponse(
            [kind    |-> "html",
             title   |-> IF Truthy(customMessage) THEN <<"Configuration error">>
                         ELSE <<"Status ", ToString(statusCode)>>,
             status  |-> IF Truthy(customMessage) THEN "!" ELSE ToString(statusCode),
             heading |-> IF Truthy(customMessage) THEN "Configuration error"
                         ELSE "Request status",
             message |-> msg],
            [status  |-> 500,
             headers |-> [h \in {"content-type"} |-> <<"t", "e", "x", "t", "/", "h", "t", "m", "l", ";", " ", "c", "h", "a", "r", "s", "e", "t", "=", "u", "t", "f", "-", "8">>]])

generateErrorPage(statusCode, customMessage) ==
    LET msg == IF Truthy(customMessage) THEN customMessage
               ELSE IF statusCode = 404 THEN MSG_NOT_FOUND ELSE MSG_UNAVAILABLE
    IN  newResponse(
            [kind    |-> "html",
             title   |-> IF Truthy(customMessage) THEN <<"Configuration error">>
                         ELSE <<"Status ", ToString(statusCode)>>,
             status  |-> IF Truthy(customMessage) THEN "!" ELSE ToString(statusCode),
             heading |-> IF Truthy(customMessage) THEN "Configuration error"
                         ELSE "Request status",
             message |-> msg],
            [status  |-> IF Truthy(customMessage) THEN 500 ELSE statusCode,
             headers |-> [h \in {"content-type"} |-> <<"t", "e", "x", "t", "/", "h", "t", "m", "l", ";", " ", "c", "h", "a", "r", "s", "e", "t", "=", "u", "t", "f", "-", "8">>]])

-----------------------------------------------------------------------------
(* Preview / download policy, workers.js:117-142 *)

\* workers.js:137
otherPreview ==
    <<<<"a", "p", "p", "l", "i", "c", "a", "t", "i", "o", "n", "/", "j", "s", "o", "n">>, <<"a", "p", "p", "l", "i", "c", "a", "t", "i", "o", "n", "/", "x", "m", "l">>, <<"a", "p", "p", "l", "i", "c", "a", "t", "i", "o", "n", "/", "j", "a", "v", "a", "s", "c", "r", "i", "p", "t">>, <<"t", "e", "x", "t", "/", "j", "a", "v", "a", "s", "c", "r", "i", "p", "t">>>>

\* variant: the forced-download list is checked before the forced-inline list
getDisposition_DownloadFirst(ct, e) ==
    IF Falsy(ct) THEN <<"a", "t", "t", "a", "c", "h", "m", "e", "n", "t">>
    ELSE LET lower             == toLowerCase(ct)
             forceInlineList   == parseMimeList(e.FORCE_INLINE_TYPES)
             forceDownloadList == parseMimeList(e.FORCE_DOWNLOAD_TYPES)
         IN  IF \E i \in 1..Len(forceDownloadList) : includes(lower, forceDownloadList[i])
             THEN <<"a", "t", "t", "a", "c", "h", "m", "e", "n", "t">>
             ELSE IF \E i \in 1..Len(forceInlineList) : includes(lower, forceInlineList[i])
             THEN <<"i", "n", "l", "i", "n", "e">>
             ELSE IF startsWith(lower, <<"i", "m", "a", "g", "e", "/">>) THEN <<"i", "n", "l", "i", "n", "e">>
             ELSE IF startsWith(lower, <<"t", "e", "x", "t", "/">>) THEN <<"i", "n", "l", "i", "n", "e">>
             ELSE IF includes(lower, <<"a", "p", "p", "l", "i", "c", "a", "t", "i", "o", "n", "/", "p", "d", "f">>) THEN <<"i", "n", "l", "i", "n", "e">>
             ELSE IF \E i \in 1..Len(otherPreview) : includes(lower, otherPreview[i])
             THEN <<"i", "n", "l", "i", "n", "e">>
             ELSE <<"a", "t", "t", "a", "c", "h", "m", "e", "n", "t">>

getDisposition(ct, e) ==
    IF Falsy(ct) THEN <<"a", "t", "t", "a", "c", "h", "m", "e", "n", "t">>
    ELSE LET lower             == toLowerCase(ct)
             forceInlineList   == parseMimeList(e.FORCE_INLINE_TYPES)
             forceDownloadList == parseMimeList(e.FORCE_DOWNLOAD_TYPES)
         IN  IF \E i \in 1..Len(forceInlineList) : includes(lower, forceInlineList[i])
             THEN <<"i", "n", "l", "i", "n", "e">>
             ELSE IF \E i \in 1..Len(forceDownloadList) : includes(lower, forceDownloadList[i])
             THEN <<"a", "t", "t", "a", "c", "h", "m", "e", "n", "t">>
             ELSE IF startsWith(lower, <<"i", "m", "a", "g", "e", "/">>) THEN <<"i", "n", "l", "i", "n", "e">>
             ELSE IF startsWith(lower, <<"t", "e", "x", "t", "/">>) THEN <<"i", "n", "l", "i", "n", "e">>
             ELSE IF includes(lower, <<"a", "p", "p", "l", "i", "c", "a", "t", "i", "o", "n", "/", "p", "d", "f">>) THEN <<"i", "n", "l", "i", "n", "e">>
             ELSE IF \E i \in 1..Len(otherPreview) : includes(lower, otherPreview[i])
             THEN <<"i", "n", "l", "i", "n", "e">>
             ELSE <<"a", "t", "t", "a", "c", "h", "m", "e", "n", "t">>

-----------------------------------------------------------------------------
(* Response transformation, workers.js:158-179 *)

\* variant: only an absent GET_URL is caught, an empty one is not
getUrlMissing_UndefinedOnly(e) == e.GET_URL = Undefined

\* workers.js:147: !env.GET_URL
getUrlMissing(e) == Falsy(e.GET_URL)

\* variant: the bodiless response is built from the upstream response, headers included
rejectedResponse_CopiesUpstream(resp) ==
    IF arrayIncludes(NULL_BODY_STATUS_CODES, resp.status)
    THEN newResponse(NullBody, resp)
    ELSE generateErrorPage(resp.status, NoMessage)

\* workers.js:160-163: the upstream status is not in normalStatusCodes
rejectedResponse(resp) ==
    IF arrayIncludes(NULL_BODY_STATUS_CODES, resp.status)
    THEN newResponse(NullBody, [status |-> resp.status, headers |-> EmptyHeaders])
    ELSE generateErrorPage(resp.status, NoMessage)

\* variant: getDisposition is given the Content-Type read back after the charset step
passThrough_PolicyOnFinalType(resp, e) ==
    LET newResp == newResponse(
                       IF arrayIncludes(NULL_BODY_STATUS_CODES, resp.status)
                       THEN NullBody ELSE resp.body,
                       resp)
        ct      == headersGet(newResp.headers, "content-type")
        withCharset ==
            IF ~Falsy(ct) /\ startsWith(ct, <<"t", "e", "x", "t", "/">>)
            THEN headersSet(newResp.headers, "content-type",
                            ct \o <<";", " ", "c", "h", "a", "r", "s", "e", "t", "=">> \o CHARSET_DEFAULT)
            ELSE newResp.headers
        disp    == getDisposition(headersGet(withCharset, "content-type"), e)
    IN  [response    |-> [newResp EXCEPT
                             !.headers = headersSet(withCharset, "content-disposition", disp)],
         contentType |-> ct,
         disposition |-> disp]

\* workers.js:167-179: the upstream status is in normalStatusCodes.  The
\* result carries the returned Response and the two locals of the code.
passThrough(resp, e) ==
    LET newResp == newResponse(
                       IF arrayIncludes(NULL_BODY_STATUS_CODES, resp.status)
                       THEN NullBody ELSE resp.body,
                       resp)
        ct      == headersGet(newResp.headers, "content-type")
        withCharset ==
            IF ~Falsy(ct) /\ startsWith(ct, <<"t", "e", "x", "t", "/">>)
            THEN headersSet(newResp.headers, "content-type",
                            ct \o <<";", " ", "c", "h", "a", "r", "s", "e", "t", "=">> \o CHARSET_DEFAULT)
            ELSE newResp.headers
        disp    == getDisposition(ct, e)
    IN  [response    |-> [newResp EXCEPT
                             !.headers = headersSet(withCharset, "content-disposition", disp)],
         contentType |-> ct,
         disposition |-> disp]

-----------------------------------------------------------------------------
(* Inputs: the requests, bindings and upstream responses the handler is run on *)

\* largest number of comma-separated tokens in a NORMAL_STATUS_CODES value
MaxCodes == 3
\* largest number of comma-separated tokens in a FORCE_*_TYPES value
MaxTypes == 2

RECURSIVE JoinComma(_)
JoinComma(tokens) ==
    IF tokens = <<>> THEN <<>>
    ELSE IF Len(tokens) = 1 THEN Head(tokens)
    ELSE Head(tokens) \o <<",">> \o JoinComma(Tail(tokens))

\* every comma-separated string of at most n tokens, and the absent binding
ConfigStrings(tokens, n) ==
    {Undefined} \cup
    {JoinComma(seq) : seq \in UNION {[1..k -> tokens] : k \in 0..n}}

StatusTokens == {<<"2", "0", "0">>, <<" ", "3", "0", "1", " ">>, <<"a", "b", "c">>, <<"2", "0", "4", "x">>, <<>>}

MimeTokens == {<<"i", "m", "a", "g", "e", "/">>, <<"c", "h", "a", "r", "s", "e", "t">>, <<" ", "P", "D", "F", " ">>, <<>>}

ContentTypes ==
    {Undefined, <<>>, <<"i", "m", "a", "g", "e", "/", "p", "n", "g">>, <<"t", "e", "x", "t", "/", "p", "l", "a", "i", "n">>, <<"T", "e", "x", "t", "/", "H", "T", "M", "L">>,
     <<"t", "e", "x", "t", "/", "h", "t", "m", "l", ";", " ", "c", "h", "a", "r", "s", "e", "t", "=", "u", "t", "f", "-", "8">>, <<"a", "p", "p", "l", "i", "c", "a", "t", "i", "o", "n", "/", "p", "d", "f">>, <<"a", "p", "p", "l", "i", "c", "a", "t", "i", "o", "n", "/", "j", "s", "o", "n">>,
     <<"a", "p", "p", "l", "i", "c", "a", "t", "i", "o", "n", "/", "x", "m", "l">>, <<"a", "p", "p", "l", "i", "c", "a", "t", "i", "o", "n", "/", "j", "a", "v", "a", "s", "c", "r", "i", "p", "t">>, <<"a", "p", "p", "l", "i", "c", "a", "t", "i", "o", "n", "/", "x", "h", "t", "m", "l", "+", "x", "m", "l">>,
     <<"a", "p", "p", "l", "i", "c", "a", "t", "i", "o", "n", "/", "x", "-", "d", "e", "m", "o", ";", " ", "t", "e", "x", "t", "/", "j", "a", "v", "a", "s", "c", "r", "i", "p", "t">>, <<"a", "p", "p", "l", "i", "c", "a", "t", "i", "o", "n", "/", "o", "c", "t", "e", "t", "-", "s", "t", "r", "e", "a", "m">>}

NoBindings ==
    [GET_URL |-> Undefined, NORMAL_STATUS_CODES |-> Undefined,
     FORCE_INLINE_TYPES |-> Undefined, FORCE_DOWNLOAD_TYPES |-> Undefined]

\* env of the worker invocations
Envs ==
    [GET_URL              : {Undefined, <<>>, <<"u", "p", ".", "e", "x", "a", "m", "p", "l", "e">>},
     NORMAL_STATUS_CODES  : {Undefined, <<>>, <<"2", "0", "0", ",", "2", "0", "4">>, <<"a", "b", "c">>, <<"4", "0", "3", ",", " ", "3", "0", "4">>,
                             <<"2", "0", "0", ",", " ", "3", "0", "1", " ", ",", "a", "b", "c">>},
     FORCE_INLINE_TYPES   : {Undefined, <<"c", "h", "a", "r", "s", "e", "t">>},
     FORCE_DOWNLOAD_TYPES : {Undefined, <<"c", "h", "a", "r", "s", "e", "t">>, <<"i", "m", "a", "g", "e", "/", ",", "t", "e", "x", "t", "/">>}]

InboundShapes ==
    {[url     |-> [protocol |-> <<"h", "t", "t", "p", ":">>, hostname |-> <<"e", "d", "g", "e", ".", "e", "x", "a", "m", "p", "l", "e">>, port |-> <<"8", "0", "8", "0">>,
                   pathname |-> <<"/", "a", "/", "b">>, search |-> <<"?", "x", "=", "1">>],
      headers |-> [h \in {"host", "accept"} |->
                      IF h = "host" THEN <<"e", "d", "g", "e", ".", "e", "x", "a", "m", "p", "l", "e", ":", "8", "0", "8", "0">> ELSE <<"*", "/", "*">>]],
     [url     |-> [protocol |-> <<"h", "t", "t", "p", "s", ":">>, hostname |-> <<"e", "d", "g", "e", ".", "e", "x", "a", "m", "p", "l", "e">>, port |-> <<"8", "4", "4", "3">>,
                   pathname |-> <<"/">>, search |-> <<"?", "q", "=", "a", "&", "r", "=", "b">>],
      headers |-> [h \in {"host", "cf-connecting-ip", "cf-ipcountry", "cf-ray",
                          "cf-visitor", "cdn-loop", "x-token"} |->
                      IF h = "host" THEN <<"e", "d", "g", "e", ".", "e", "x", "a", "m", "p", "l", "e">> ELSE <<"v">> \o <<h>>]],
     [url     |-> [protocol |-> <<"h", "t", "t", "p", "s", ":">>, hostname |-> <<"u", "p", ".", "e", "x", "a", "m", "p", "l", "e">>, port |-> <<>>,
                   pathname |-> <<"/", "f", ".", "t", "x", "t">>, search |-> <<>>],
      headers |-> EmptyHeaders]}

Requests ==
    {[method |-> m, url |-> sh.url, headers |-> sh.headers, body |-> b] :
        m \in {"GET", "HEAD", "POST", "PUT"},
        sh \in InboundShapes,
        b \in {NullBody, StreamBody("payload")}}

UpstreamHeaders ==
    {[h \in names |-> IF h = "content-type" THEN ct ELSE <<"a", "t", "t", "a", "c", "h", "m", "e", "n", "t", ";", " ", "f", "i", "l", "e", "n", "a", "m", "e", "=", "u">>] :
        names \in {{"content-type"}, {"content-type", "content-disposition"}},
        ct \in {<<"t", "e", "x", "t", "/", "h", "t", "m", "l">>, <<"t", "e", "x", "t", "/", "h", "t", "m", "l", ";", " ", "c", "h", "a", "r", "s", "e", "t", "=", "u", "t", "f", "-", "8">>, <<"i", "m", "a", "g", "e", "/", "p", "n", "g">>,
                <<"a", "p", "p", "l", "i", "c", "a", "t", "i", "o", "n", "/", "o", "c", "t", "e", "t", "-", "s", "t", "r", "e", "a", "m">>}}
    \cup {EmptyHeaders, [h \in {"content-disposition"} |-> <<"a", "t", "t", "a", "c", "h", "m", "e", "n", "t", ";", " ", "f", "i", "l", "e", "n", "a", "m", "e", "=", "u">>]}

UpstreamResponses ==
    [status  : {101, 200, 204, 205, 301, 304, 403, 404, 500},
     headers : UpstreamHeaders,
     body    : {StreamBody("upstream")}]

NoRequest ==
    [method |-> "", url |-> [protocol |-> <<>>, hostname |-> <<>>, port |-> <<>>,
                             pathname |-> <<>>, search |-> <<>>],
     headers |-> EmptyHeaders, body |-> NullBody]

NoResponse == [status |-> 0, headers |-> EmptyHeaders, body |-> NullBody]

-----------------------------------------------------------------------------
(* The worker: one invocation of fetch(request, env).  Invocations share no *)
(* state (every variable below is a parameter or local of the invocation), *)
(* so a behaviour follows a single one from the call to its result.        *)

Init ==
    /\ pc = "idle"
    /\ env = NoBindings
    /\ request = NoRequest
    /\ normalStatusCodes = <<>>
    /\ reqData = NullReqData
    /\ fetchCalls = 0
    /\ upstream = NoResponse
    /\ contentType = Undefined
    /\ disposition = <<>>
    /\ response = NoResponse

\* workers.js:184-188: the runtime calls fetch(request, env), which calls getResponse
WorkerFetch ==
    /\ pc = "idle"
    /\ \E req \in Requests, e \in Envs :
        /\ request' = req
        /\ env' = e
    /\ pc' = "entered"
    /\ normalStatusCodes' = <<>>
    /\ reqData' = NullReqData
    /\ fetchCalls' = 0
    /\ upstream' = NoResponse
    /\ contentType' = Undefined
    /\ disposition' = <<>>
    /\ response' = NoResponse

\* workers.js:147-156: getResponse up to the call of fetch
GetResponseStart ==
    /\ pc = "entered"
    /\ IF getUrlMissing(env)
       THEN /\ response' = generateErrorPage(0, MSG_GET_URL_MISSING)
            /\ pc' = "done"
            /\ UNCHANGED <<normalStatusCodes, reqData, fetchCalls>>
       ELSE /\ normalStatusCodes' = parseNormalStatusCodes(env.NORMAL_STATUS_CODES)
            /\ reqData' = buildReq(request, env)
            /\ IF reqData' = NullReqData
               THEN /\ response' = generateErrorPage(0, MSG_BUILD_FAILED)
                    /\ pc' = "done"
                    /\ UNCHANGED fetchCalls
               ELSE /\ fetchCalls' = fetchCalls + 1
                    /\ pc' = "awaiting"
                    /\ UNCHANGED response
    /\ UNCHANGED <<env, request, upstream, contentType, disposition>>

\* workers.js:156-179: the awaited fetch resolves and the response is transformed
FetchResolved ==
    /\ pc = "awaiting"
    /\ \E resp \in UpstreamResponses :
        /\ upstream' = resp
        /\ IF ~arrayIncludes(normalStatusCodes, resp.status)
           THEN /\ response' = rejectedResponse(resp)
                /\ UNCHANGED <<contentType, disposition>>
           ELSE LET r == passThrough(resp, env)
                IN  /\ response' = r.response
                    /\ contentType' = r.contentType
                    /\ disposition' = r.disposition
    /\ pc' = "done"
    /\ UNCHANGED <<env, request, normalStatusCodes, reqData, fetchCalls>>

\* workers.js:156: the awaited fetch rejects (transport failure); nothing
\* catches it, so getResponse rejects without a Response
FetchRejected ==
    /\ pc = "awaiting"
    /\ pc' = "thrown"
    /\ UNCHANGED <<env, request, normalStatusCodes, reqData, fetchCalls, upstream,
                   contentType, disposition, response>>

Next == WorkerFetch \/ GetResponseStart \/ FetchResolved \/ FetchRejected

Spec == Init /\ [][Next]_vars

-----------------------------------------------------------------------------
(* parseNormalStatusCodes on its own, over every raw value of at most MaxCodes tokens *)

InitParse ==
    /\ pc = "parse"
    /\ env \in [GET_URL : {Undefined},
                NORMAL_STATUS_CODES : ConfigStrings(StatusTokens, MaxCodes),
                FORCE_INLINE_TYPES : {Undefined}, FORCE_DOWNLOAD_TYPES : {Undefined}]
    /\ request = NoRequest
    /\ normalStatusCodes = <<>>
    /\ reqData = NullReqData
    /\ fetchCalls = 0
    /\ upstream = NoResponse
    /\ contentType = Undefined
    /\ disposition = <<>>
    /\ response = NoResponse

\* workers.js:151
ParseCall ==
    /\ pc = "parse"
    /\ normalStatusCodes' = parseNormalStatusCodes(env.NORMAL_STATUS_CODES)
    /\ pc' = "parsed"
    /\ UNCHANGED <<env, request, reqData, fetchCalls, upstream, contentType,
                   disposition, response>>

SpecParse == InitParse /\ [][ParseCall]_vars

-----------------------------------------------------------------------------
(* getDisposition on its own, over content-types and override lists of at most MaxTypes tokens *)

InitDisposition ==
    /\ pc = "decide"
    /\ env \in [GET_URL : {Undefined}, NORMAL_STATUS_CODES : {Undefined},
                FORCE_INLINE_TYPES : ConfigStrings(MimeTokens, MaxTypes),
                FORCE_DOWNLOAD_TYPES : ConfigStrings(MimeTokens, MaxTypes)]
    /\ contentType \in ContentTypes
    /\ request = NoRequest
    /\ normalStatusCodes = <<>>
    /\ reqData = NullReqData
    /\ fetchCalls = 0
    /\ upstream = NoResponse
    /\ disposition = <<>>
    /\ response = NoResponse

\* workers.js:176
DispositionCall ==
    /\ pc = "decide"
    /\ disposition' = getDisposition(contentType, env)
    /\ pc' = "decided"
    /\ UNCHANGED <<env, request, normalStatusCodes, reqData, fetchCalls, upstream,
                   contentType, response>>

SpecDisposition == InitDisposition /\ [][DispositionCall]_vars

-----------------------------------------------------------------------------
(* Properties *)

Elems(arr) == {arr[i] : i \in 1..Len(arr)}

\* the invocation fetched the upstream and returned a Response
Fetched == pc = "done" /\ fetchCalls = 1

Allowed == arrayIncludes(normalStatusCodes, upstream.status)

BodilessCodes == {101, 204, 205, 304}

\* The disposition policy of the specification, case by case: each case
\* states the negation of the cases that take precedence over it.
DispositionPolicy(ct, forceInline, forceDownload) ==
    LET absent   == ct = Undefined
        lower    == IF absent THEN <<>> ELSE toLowerCase(ct)
        inlineHit   == \E t \in Elems(forceInline) : includes(lower, t)
        downloadHit == \E t \in Elems(forceDownload) : includes(lower, t)
        builtIn  == \/ startsWith(lower, <<"i", "m", "a", "g", "e", "/">>)
                    \/ startsWith(lower, <<"t", "e", "x", "t", "/">>)
                    \/ \E t \in {<<"a", "p", "p", "l", "i", "c", "a", "t", "i", "o", "n", "/", "p", "d", "f">>, <<"a", "p", "p", "l", "i", "c", "a", "t", "i", "o", "n", "/", "j", "s", "o", "n">>, <<"a", "p", "p", "l", "i", "c", "a", "t", "i", "o", "n", "/", "x", "m", "l">>,
                                 <<"a", "p", "p", "l", "i", "c", "a", "t", "i", "o", "n", "/", "j", "a", "v", "a", "s", "c", "r", "i", "p", "t">>, <<"t", "e", "x", "t", "/", "j", "a", "v", "a", "s", "c", "r", "i", "p", "t">>} :
                          includes(lower, t)
    IN  CASE absent -> <<"a", "t", "t", "a", "c", "h", "m", "e", "n", "t">>
          [] ~absent /\ inlineHit -> <<"i", "n", "l", "i", "n", "e">>
          [] ~absent /\ ~inlineHit /\ downloadHit -> <<"a", "t", "t", "a", "c", "h", "m", "e", "n", "t">>
          [] ~absent /\ ~inlineHit /\ ~downloadHit /\ builtIn -> <<"i", "n", "l", "i", "n", "e">>
          [] ~absent /\ ~inlineHit /\ ~downloadHit /\ ~builtIn -> <<"a", "t", "t", "a", "c", "h", "m", "e", "n", "t">>

C2_CharsetAppendedOnlyWhenMissing ==
    (Fetched /\ Allowed /\ "content-type" \in DOMAIN upstream.headers
        /\ startsWith(upstream.headers["content-type"], <<"t", "e", "x", "t", "/">>))
        => LET ct == upstream.headers["content-type"]
           IN  response.headers["content-type"] =
                   IF includes(toLowerCase(ct), <<"c", "h", "a", "r", "s", "e", "t", "=">>)
                   THEN ct
                   ELSE ct \o <<";", " ", "c", "h", "a", "r", "s", "e", "t", "=", "u", "t", "f", "-", "8">>

\* C3 (as stated): parseNormalStatusCodes returns the integers of the tokens
\* that parse, or {200} when the input is absent, empty or has no token that
\* parses; the result is never empty.
C3_ParsedCodesNeverEmpty ==
    pc = "parsed"
        => LET raw  == env.NORMAL_STATUS_CODES
               ints == IF Falsy(raw) THEN {}
                       ELSE {parseInt(trim(t))[1] :
                                t \in {u \in Elems(split(raw)) : ~isNaN(parseInt(trim(u)))}}
           IN  /\ Elems(normalStatusCodes) # {}
               /\ Elems(normalStatusCodes) = IF ints = {} THEN {200} ELSE ints

\* C4: the outcome is pass-through when the status is in the allow-list,
\* bodiless when it is a rejected bodiless code and an error page otherwise;
\* the response carries a Content-Disposition header (the handler's) exactly
\* in the pass-through outcome.
C4_DispositionIffPassThrough ==
    Fetched
        => /\ "content-disposition" \in DOMAIN response.headers <=> Allowed
           /\ Allowed =>
                /\ response.headers["content-disposition"] = disposition
                /\ response.body.kind # "html"
                /\ response.status = upstream.status
           /\ (~Allowed /\ upstream.status \in BodilessCodes) =>
                /\ response.body = NullBody
                /\ DOMAIN response.headers = {}
           /\ (~Allowed /\ upstream.status \notin BodilessCodes) =>
                /\ response.body.kind = "html"
                /\ DOMAIN response.headers = {"content-type"}

\* a rejected upstream response that itself had a Content-Disposition header
C4_Witness ==
    /\ Fetched
    /\ ~Allowed
    /\ "content-disposition" \in DOMAIN upstream.headers
    /\ "content-disposition" \notin DOMAIN response.headers

\* C5: getDisposition is the disposition policy evaluated in strict
\* precedence order on the lower-cased content-type.
C5_DispositionIsPolicy ==
    pc = "decided"
        => disposition = DispositionPolicy(contentType,
                                           parseMimeList(env.FORCE_INLINE_TYPES),
                                           parseMimeList(env.FORCE_DOWNLOAD_TYPES))

\* both override lists match a built-in inline type and forceInline wins
C5_Witness ==
    /\ pc = "decided"
    /\ contentType = <<"a", "p", "p", "l", "i", "c", "a", "t", "i", "o", "n", "/", "p", "d", "f">>
    /\ arrayIncludes(parseMimeList(env.FORCE_INLINE_TYPES), <<"p", "d", "f">>)
    /\ arrayIncludes(parseMimeList(env.FORCE_DOWNLOAD_TYPES), <<"p", "d", "f">>)
    /\ disposition = <<"i", "n", "l", "i", "n", "e">>

\* C6: with GET_URL absent or empty the invocation ends with the
\* configuration-error page (status 500, the fixed message), and fetch is
\* never called.
C6_UnconfiguredNeverFetches ==
    (pc # "idle" /\ Falsy(env.GET_URL))
        => /\ fetchCalls = 0
           /\ pc \in {"entered", "done"}
           /\ pc = "done" =>
                /\ response.status = 500
                /\ response.body.kind = "html"
                /\ response.body.message = MSG_GET_URL_MISSING

\* GET_URL is the empty string and the invocation has returned
C6_Witness ==
    /\ pc = "done"
    /\ env.GET_URL = <<>>
    /\ fetchCalls = 0
    /\ response.status = 500

\* C7: a status outside the allow-list that is not a bodiless code yields the
\* error page rendered for (status, no message), with that same status.
C7_ErrorPageMirrorsStatus ==
    (Fetched /\ ~Allowed /\ upstream.status \notin BodilessCodes)
        => /\ response.status = upstream.status
           /\ response.body.kind = "html"
           /\ response.body.status = ToString(upstream.status)
           /\ response.body.message =
                  IF upstream.status = 404 THEN MSG_NOT_FOUND ELSE MSG_UNAVAILABLE

\* an upstream 403 under the default allow-list
C7_Witness ==
    /\ Fetched
    /\ env.NORMAL_STATUS_CODES = Undefined
    /\ upstream.status = 403
    /\ response.status = 403
    /\ response.body.kind = "html"

\* C8: the outbound request has a body exactly when the method is neither
\* GET nor HEAD, and then it is the inbound body.
C8_BodyOnlyForNonGetHead ==
    fetchCalls = 1
        => /\ "body" \in DOMAIN reqData.requestInit
                <=> request.method \notin {"GET", "HEAD"}
           /\ "body" \in DOMAIN reqData.requestInit
                => reqData.requestInit.body = request.body

\* a GET whose Request object carried a body went out without one
C8_Witness ==
    /\ fetchCalls = 1
    /\ request.method = "GET"
    /\ request.body # NullBody
    /\ "body" \notin DOMAIN reqData.requestInit

\* C9: the outbound request has none of the edge headers, host is the
\* upstream host, every other inbound header is kept, the method is kept, and
\* the URL is https://<upstream host><path><query> without a port.
C9_RequestFrame ==
    fetchCalls = 1
        => LET out     == reqData.requestInit.headers
               dropped == {"host", "cf-connecting-ip", "cf-ipcountry", "cf-ray",
                           "cf-visitor", "cdn-loop"}
           IN  /\ DOMAIN out = (DOMAIN request.headers \ dropped) \cup {"host"}
               /\ out["host"] = env.GET_URL
               /\ \A h \in DOMAIN request.headers \ dropped : out[h] = request.headers[h]
               /\ reqData.requestInit.method = request.method
               /\ reqData.url = <<"h", "t", "t", "p", "s", ":", "/", "/">> \o env.GET_URL
                                    \o request.url.pathname \o request.url.search

\* an inbound request with edge headers, a port and a query string was rewritten
C9_Witness ==
    /\ fetchCalls = 1
    /\ "cdn-loop" \in DOMAIN request.headers
    /\ request.url.port # <<>>
    /\ request.url.search # <<>>
    /\ request.headers["host"] # env.GET_URL
    /\ "x-token" \in DOMAIN reqData.requestInit.headers

\* C10 (as stated): on a pass-through response Content-Disposition is the
\* policy applied to the final, possibly charset-augmented, Content-Type.
C10_DispositionOfFinalContentType ==
    (Fetched /\ Allowed)
        => response.headers["content-disposition"] =
              DispositionPolicy(headersGet(response.headers, "content-type"),
                                parseMimeList(env.FORCE_INLINE_TYPES),
                                parseMimeList(env.FORCE_DOWNLOAD_TYPES))

\* C10 (amended): on a pass-through response Content-Disposition is the
\* policy applied to the upstream Content-Type, as read before the charset
\* is appended.
C10_DispositionOfUpstreamContentType ==
    (Fetched /\ Allowed)
        => response.headers["content-disposition"] =
              DispositionPolicy(headersGet(upstream.headers, "content-type"),
                                parseMimeList(env.FORCE_INLINE_TYPES),
                                parseMimeList(env.FORCE_DOWNLOAD_TYPES))

\* an override entry that matches only the appended "; charset=utf-8"
C10_Witness ==
    /\ Fetched
    /\ Allowed
    /\ headersGet(upstream.headers, "content-type") = <<"t", "e", "x", "t", "/", "h", "t", "m", "l">>
    /\ env.FORCE_INLINE_TYPES = Undefined
    /\ env.FORCE_DOWNLOAD_TYPES = <<"c", "h", "a", "r", "s", "e", "t">>
    /\ response.headers["content-type"] = <<"t", "e", "x", "t", "/", "h", "t", "m", "l", ";", " ", "c", "h", "a", "r", "s", "e", "t", "=", "u", "t", "f", "-", "8">>
    /\ response.headers["content-disposition"] = <<"i", "n", "l", "i", "n", "e">>

====
